---- MODULE Spec2Model ----
(***************************************************************************)
(* The regulatory crawler and its stores.                                  *)
(*                                                                         *)
(*   crawler_scrapper.py : crawl_generic (direct PDFs, then a breadth-     *)
(*                         first crawl) writing the documents table        *)
(*   scrapper.py         : save_regulation / pdf_already_saved on the      *)
(*                         per-region regulations tables                   *)
(*   functions/utils.py  : get_connection and the read-side queries        *)
(*                                                                         *)
(* Text is a sequence of tokens (<<>> is the empty string), an Optional    *)
(* value is <<>> for None and <<v>> for a value.                           *)
(***************************************************************************)
EXTENDS Integers, Sequences, FiniteSets, TLC

VARIABLES
    cfg,          \* the CrawlerConfig handed to crawl_generic
    web,          \* what the network answers: Any, or one fixed answer per URL
    pc,           \* where crawl_generic stands: idle, pdfs, bfs, done
    run,          \* which run of crawl_generic this is: "first" or "second"
    visited,      \* crawl_generic's visited set
    queue,        \* crawl_generic's deque of <<url, depth>>
    pages_saved,  \* crawl_generic's counter
    pdf_i,        \* position of the direct-PDF loop in cfg.extra_pdf_urls
    documents,    \* the documents table of regulations.db
    fetchLog,     \* the URLs handed to fetch_url in this run, in order
    last,         \* the latest fetch: its URL, its answer and where the body went
    firstCount,   \* the number of rows of documents when the first run ended
    regulations,  \* scrapper.py: region -> the regulations table of its database
    utilsDb,      \* utils.py: region -> the regulations table of its database
    outcome       \* what the latest store call returned or raised

vars == <<cfg, web, pc, run, visited, queue, pages_saved, pdf_i, documents,
          fetchLog, last, firstCount, regulations, utilsDb, outcome>>

crawlVars == <<cfg, web, pc, run, visited, queue, pages_saved, pdf_i,
               fetchLog, last, firstCount>>

(***************************************************************************)
(* Bounds of the model.                                                    *)
(***************************************************************************)
MaxDepth == 2
MaxPages == 2

(***************************************************************************)
(* Optional values and text.                                               *)
(***************************************************************************)
None == <<>>
Some(v) == <<v>>
IsNone(o) == o = <<>>
Get(o) == o[1]

EmptyText == <<>>

\* str.lower(), token by token
LowerTok(c) ==
    CASE c = "N" -> "n"
      [] c = "G" -> "g"
      [] c = "B" -> "b"
      [] c = "P" -> "p"
      [] c = ".PDF" -> ".pdf"
      [] OTHER -> c

Lower(s) == [i \in 1..Len(s) |-> LowerTok(s[i])]

\* str.endswith / str.startswith
EndsWith(s, t) ==
    /\ Len(t) <= Len(s)
    /\ SubSeq(s, Len(s) - Len(t) + 1, Len(s)) = t

StartsWith(s, t) ==
    /\ Len(t) <= Len(s)
    /\ SubSeq(s, 1, Len(t)) = t

(***************************************************************************)
(* URLs.  A URL is kept as urlparse splits it: scheme, netloc (one token   *)
(* per character) and path (tokens, "/" a token of its own).               *)
(***************************************************************************)
Url(s, n, p) == [scheme |-> s, netloc |-> n, path |-> p]

\* the URL written out, as the str the code handles
UrlText(u) ==
    <<u.scheme, ":">> \o (IF u.netloc = <<>> THEN <<>> ELSE <<"/", "/">> \o u.netloc) \o u.path

HostN  == <<"n", ".", "g">>
HostWN == <<"w", ".", "n", ".", "g">>
HostXN == <<"x", "n", ".", "g">>
HostE  == <<"e", ".", "c">>
HostR  == <<"r", ".", "b">>

UrlA == Url("https", HostN, <<"/", "a">>)
UrlB == Url("https", HostWN, <<"/", "b", ".pdf">>)
UrlC == Url("https", HostE, <<"/", "c">>)
UrlD == Url("https", HostN, <<"/", "d", "/">>)
UrlP == Url("https", HostR, <<"/", "f", ".PDF">>)
UrlX == Url("https", HostXN, <<>>)
UrlM == Url("mailto", <<>>, <<"x">>)

\* is_pdf_url: url.lower().endswith(".pdf")
is_pdf_url(u) == EndsWith(Lower(UrlText(u)), <<".pdf">>)

\* url.rsplit("/", 1)[-1]: what follows the last "/" of the URL
RECURSIVE AfterLastSlash(_)
AfterLastSlash(s) ==
    IF s = <<>> THEN <<>>
    ELSE IF s[Len(s)] = "/" THEN <<>>
    ELSE AfterLastSlash(SubSeq(s, 1, Len(s) - 1)) \o <<s[Len(s)]>>

UrlFilename(u) == AfterLastSlash(UrlText(u))

(***************************************************************************)
(* The documents table (crawler_scrapper.py, init_db): rows with an        *)
(* AUTOINCREMENT id and UNIQUE (jurisdiction, url).  seq is the largest id *)
(* ever given (sqlite_sequence).  The columns the crawler only writes and  *)
(* nothing reads (source, celex, law_id, raw_json, content_type,           *)
(* status_code, fetched_at) are left out.                                  *)
(***************************************************************************)
EmptyTable == [rows |-> {}, seq |-> 0]

\* The rows an INSERT of (j, url) conflicts with under UNIQUE (jurisdiction, url):
\* SQLite holds two NULLs to be distinct, so a NULL url conflicts with nothing.
DocConflicts(tbl, j, url) ==
    {r \in tbl.rows : r.jurisdiction = j /\ ~IsNone(url) /\ r.url = url}

\* INSERT OR REPLACE without the REPLACE: the conflicting row stays
save_document_keep(tbl, j, title, text, is_pdf, url) ==
    [rows |-> tbl.rows \cup
                {[id |-> tbl.seq + 1, jurisdiction |-> j, url |-> url,
                  title |-> title, text |-> text, is_pdf |-> is_pdf]},
     seq |-> tbl.seq + 1]

\* save_document emptying the table before it inserts
save_document_evict(tbl, j, title, text, is_pdf, url) ==
    [rows |-> {[id |-> tbl.seq + 1, jurisdiction |-> j, url |-> url,
                title |-> title, text |-> text, is_pdf |-> is_pdf]},
     seq |-> tbl.seq + 1]

\* save_document: INSERT OR REPLACE INTO documents
save_document(tbl, j, title, text, is_pdf, url) ==
    [rows |-> (tbl.rows \ DocConflicts(tbl, j, url)) \cup
                {[id |-> tbl.seq + 1, jurisdiction |-> j, url |-> url,
                  title |-> title, text |-> text, is_pdf |-> is_pdf]},
     seq |-> tbl.seq + 1]

(***************************************************************************)
(* The network.  A response is an exception (exc) or a status, a           *)
(* Content-Type and a body.  A body is described by what it is and by what *)
(* each extractor makes of it: magic (it starts with %PDF), empty (no      *)
(* bytes), pdfminer (the text pdfminer returns; nothing for bytes that are *)
(* no PDF), and title, text and hrefs as BeautifulSoup finds them.         *)
(***************************************************************************)
NoUrl == Url("", <<>>, <<>>)

HrefAbs(u)  == [kind |-> "abs",   url |-> u,     path |-> <<>>, pad |-> FALSE]
HrefPad(u)  == [kind |-> "abs",   url |-> u,     path |-> <<>>, pad |-> TRUE]
HrefPath(p) == [kind |-> "path",  url |-> NoUrl, path |-> p,    pad |-> FALSE]
HrefFrag    == [kind |-> "frag",  url |-> NoUrl, path |-> <<>>, pad |-> FALSE]
HrefBlank   == [kind |-> "blank", url |-> NoUrl, path |-> <<>>, pad |-> TRUE]
HrefJs      == [kind |-> "js",    url |-> NoUrl, path |-> <<>>, pad |-> FALSE]

LinksScenario == <<HrefAbs(UrlD), HrefAbs(UrlC)>>
LinksTwice    == <<HrefAbs(UrlC), HrefPad(UrlB), HrefAbs(UrlB)>>
LinksLocal    == <<HrefPath(<<"/", "d", "/">>), HrefFrag, HrefBlank>>
LinksOdd      == <<HrefAbs(UrlA), HrefAbs(UrlM), HrefJs, HrefAbs(UrlX)>>

PdfBody(t) ==
    [magic |-> TRUE, empty |-> FALSE, pdfminer |-> t,
     title |-> EmptyText, text |-> <<"%PDF">>, hrefs |-> <<>>]

HtmlBody(title, text, hrefs) ==
    [magic |-> FALSE, empty |-> FALSE, pdfminer |-> EmptyText,
     title |-> title, text |-> text, hrefs |-> hrefs]

EmptyBody ==
    [magic |-> FALSE, empty |-> TRUE, pdfminer |-> EmptyText,
     title |-> EmptyText, text |-> EmptyText, hrefs |-> <<>>]

Bodies ==
    { PdfBody(EmptyText), PdfBody(<<"p">>), EmptyBody,
      HtmlBody(<<"T">>, <<"t">>, LinksScenario),
      HtmlBody(EmptyText, <<"t">>, LinksTwice),
      HtmlBody(<<"T">>, EmptyText, LinksLocal),
      HtmlBody(EmptyText, <<"t">>, LinksOdd),
      HtmlBody(<<"T">>, <<"t">>, <<>>) }

CTypes == {"application/pdf", "text/html"}

Response(exc, status, ctype, body) ==
    [exc |-> exc, status |-> status, ctype |-> ctype, body |-> body]

Failure == Response(TRUE, 0, "", EmptyBody)

\* an error page with text and links, and a PDF sent with an error status
ErrorBodies == { HtmlBody(<<"T">>, <<"t">>, LinksScenario), PdfBody(<<"p">>) }

Responses ==
    {Failure}
    \cup {Response(FALSE, s, "text/html", EmptyBody) : s \in {199, 300}}
    \cup {Response(FALSE, 404, c, b) : c \in CTypes, b \in ErrorBodies}
    \cup {Response(FALSE, s, c, b) : s \in {200, 299}, c \in CTypes, b \in Bodies}

\* what the network answers for url: anything, or the fixed page of a static web
\* (a URL the static web does not hold does not answer)
Answers(url) ==
    IF IsNone(web) THEN Responses
    ELSE IF url \in DOMAIN Get(web) THEN {Get(web)[url]}
    ELSE {Failure}

\* fetch_url without the status test of lines 285-287
fetch_url_any_status(url, resp) ==
    IF resp.exc
    THEN [html_text |-> None, pdf_bytes |-> None, status |-> None, ctype |-> None]
    ELSE IF resp.ctype = "application/pdf" \/ is_pdf_url(url)
    THEN [html_text |-> None, pdf_bytes |-> Some(resp.body),
          status |-> Some(resp.status), ctype |-> Some(resp.ctype)]
    ELSE [html_text |-> Some(resp.body), pdf_bytes |-> None,
          status |-> Some(resp.status), ctype |-> Some(resp.ctype)]

\* fetch_url: (html_text, pdf_bytes, status_code, content_type)
fetch_url(url, resp) ==
    IF resp.exc
    THEN [html_text |-> None, pdf_bytes |-> None, status |-> None, ctype |-> None]
    ELSE IF ~(200 <= resp.status /\ resp.status < 300)
    THEN [html_text |-> None, pdf_bytes |-> None,
          status |-> Some(resp.status), ctype |-> Some(resp.ctype)]
    ELSE IF resp.ctype = "application/pdf" \/ is_pdf_url(url)
    THEN [html_text |-> None, pdf_bytes |-> Some(resp.body),
          status |-> Some(resp.status), ctype |-> Some(resp.ctype)]
    ELSE [html_text |-> Some(resp.body), pdf_bytes |-> None,
          status |-> Some(resp.status), ctype |-> Some(resp.ctype)]

\* extract_pdf_text: pdfminer's text, "" when it has none or raises
extract_pdf_text(pdf_bytes) == pdf_bytes.pdfminer

\* extract_html_text: ((title, text), links); links drops empty and javascript: hrefs
extract_html_text(html) ==
    [title |-> html.title,
     text  |-> html.text,
     links |-> SelectSeq(html.hrefs, LAMBDA h : h.kind # "js")]

\* urljoin(base_url, href)
urljoin(base, href) ==
    IF href.kind = "abs" THEN href.url
    ELSE Url(base.scheme, base.netloc, href.path)

\* normalize_url: None for an empty (after strip) or fragment-only href
normalize_url(base, href) ==
    IF href.kind = "blank" THEN None
    ELSE IF href.kind = "frag" THEN None
    ELSE Some(urljoin(base, href))

\* parsed.scheme.startswith("http"), over the schemes of the model
SchemeIsHttp(scheme) == scheme \in {"http", "https"}

\* should_follow without the domain test
should_follow_any(url, allowed_domains) == SchemeIsHttp(url.scheme)

\* should_follow: an http(s) URL whose netloc, lowered, ends with an allowed domain
should_follow(url, allowed_domains) ==
    /\ SchemeIsHttp(url.scheme)
    /\ \E i \in 1..Len(allowed_domains) :
          EndsWith(Lower(url.netloc), Lower(allowed_domains[i]))

(***************************************************************************)
(* crawl_generic.                                                          *)
(***************************************************************************)
Config(starts, extras, depth, pages) ==
    [jurisdiction |-> "US",
     start_urls |-> starts,
     allowed_domains |-> <<HostWN, <<"N", ".", "G">>>>,
     max_depth |-> depth,
     max_pages |-> pages,
     extra_pdf_urls |-> extras]

StartLists == { <<UrlA>>, <<UrlA, UrlC>> }
ExtraLists == { <<>>, <<UrlP, UrlB>>, <<UrlB, UrlA>> }
PageBudgets == (0..MaxPages) \cup {10}

Configs ==
    {Config(s, e, d, p) : s \in StartLists, e \in ExtraLists,
                          d \in 0..MaxDepth, p \in PageBudgets}

NoFetch ==
    [url |-> None, phase |-> "none", depth |-> 0, ok |-> FALSE, magic |-> FALSE,
     route |-> "none", failed |-> FALSE, hrefs |-> 0, text |-> EmptyText,
     slept |-> FALSE, gap |-> TRUE]

\* the record of one fetch: ok is a 2xx answer, failed a request that raised,
\* hrefs the number of links in the body that came back,
\* route the extractor the body went to, text what it extracted, slept whether
\* time.sleep(REQUEST_DELAY) ran before the loop turned, gap whether it ran
\* between the fetch before this one and this one
Fetched(url, phase, depth, resp, route, text, slept) ==
    [url |-> Some(url), phase |-> phase, depth |-> depth,
     ok |-> ~resp.exc /\ 200 <= resp.status /\ resp.status < 300,
     magic |-> resp.body.magic, route |-> route,
     failed |-> resp.exc, hrefs |-> Len(resp.body.hrefs), text |-> text,
     slept |-> slept,
     gap |-> fetchLog = <<>> \/ last.slept]

\* visited.add left out
MarkVisitedNot(seen, url) == seen

\* lines 498 and 528: visited.add(url)
MarkVisited(seen, url) == seen \cup {url}

\* the text tests of lines 505, 539 and 567 with the test dropped
HasTextAlways(text) == TRUE

\* lines 505, 539 and 567: `if not text` lets only a non-empty text through
HasText(text) == text # EmptyText

\* queue.appendleft in place of queue.append
EnqueueFront(q, entries) == entries \o q

\* line 593: queue.append, entry by entry
Enqueue(q, entries) == q \o entries

\* lines 487-492: the queue holds the start URLs at depth 0
SeedQueue(c) == [i \in 1..Len(c.start_urls) |-> <<c.start_urls[i], 0>>]

\* lines 585-593 without the depth test
NewEntriesAnyDepth(url, depth, links, seen, c) ==
    LET cand == [i \in 1..Len(links) |-> normalize_url(url, links[i])]
        keep(o) == /\ ~IsNone(o)
                   /\ should_follow(Get(o), c.allowed_domains)
                   /\ Get(o) \notin seen
    IN  [i \in 1..Len(SelectSeq(cand, keep)) |->
            <<Get(SelectSeq(cand, keep)[i]), depth + 1>>]

\* lines 585-593: the entries a page of `depth` with `links` adds to the queue
NewEntries(url, depth, links, seen, c) ==
    IF depth < c.max_depth
    THEN LET cand == [i \in 1..Len(links) |-> normalize_url(url, links[i])]
             keep(o) == /\ ~IsNone(o)
                        /\ should_follow(Get(o), c.allowed_domains)
                        /\ Get(o) \notin seen
         IN  [i \in 1..Len(SelectSeq(cand, keep)) |->
                 <<Get(SelectSeq(cand, keep)[i]), depth + 1>>]
    ELSE <<>>

\* lines 482-492
StartCrawl ==
    /\ pc = "idle"
    /\ visited' = {}
    /\ queue' = SeedQueue(cfg)
    /\ pages_saved' = 0
    /\ pdf_i' = 1
    /\ fetchLog' = <<>>
    /\ last' = NoFetch
    /\ pc' = "pdfs"
    /\ UNCHANGED <<cfg, web, run, documents, firstCount, regulations, utilsDb, outcome>>

\* lines 495-521: one turn of the loop over cfg.extra_pdf_urls
DirectPdf ==
    /\ pc = "pdfs"
    /\ pdf_i <= Len(cfg.extra_pdf_urls)
    /\ LET pdf_url == cfg.extra_pdf_urls[pdf_i] IN
       IF pdf_url \in visited
       THEN UNCHANGED <<visited, fetchLog, last, documents, pages_saved>>
       ELSE \E resp \in Answers(pdf_url) :
              LET f == fetch_url(pdf_url, resp)
                  got == ~IsNone(f.pdf_bytes) /\ ~Get(f.pdf_bytes).empty
                  text == IF got THEN extract_pdf_text(Get(f.pdf_bytes)) ELSE EmptyText
              IN  /\ visited' = MarkVisited(visited, pdf_url)
                  /\ fetchLog' = Append(fetchLog, pdf_url)
                  /\ last' = Fetched(pdf_url, "pdfs", 0, resp,
                                 IF got THEN "pdf" ELSE "none", text, FALSE)
                  /\ IF got /\ HasText(text)
                     THEN /\ documents' = save_document(documents, cfg.jurisdiction,
                                              UrlFilename(pdf_url), text, TRUE, Some(pdf_url))
                          /\ pages_saved' = pages_saved + 1
                     ELSE UNCHANGED <<documents, pages_saved>>
    /\ pdf_i' = pdf_i + 1
    /\ UNCHANGED <<cfg, web, pc, run, queue, firstCount, regulations, utilsDb, outcome>>

\* the direct-PDF loop left as soon as the page budget is used up
EnterBfsOnBudget ==
    /\ pc = "pdfs"
    /\ (pdf_i > Len(cfg.extra_pdf_urls) \/ pages_saved >= cfg.max_pages)
    /\ pc' = "bfs"
    /\ UNCHANGED <<cfg, web, run, visited, queue, pages_saved, pdf_i, documents,
                   fetchLog, last, firstCount, regulations, utilsDb, outcome>>

\* line 524, first test: the direct-PDF loop is over
EnterBfs ==
    /\ pc = "pdfs"
    /\ pdf_i > Len(cfg.extra_pdf_urls)
    /\ pc' = "bfs"
    /\ UNCHANGED <<cfg, web, run, visited, queue, pages_saved, pdf_i, documents,
                   fetchLog, last, firstCount, regulations, utilsDb, outcome>>

\* line 524 with the budget test dropped
LoopGoesOnNoBudget == queue # <<>>

\* line 524 stopping one page short of the budget
LoopStopsEarly == queue # <<>> /\ pages_saved + 1 < cfg.max_pages

\* line 524 with a failed fetch ending the loop
LoopGoesOnUnlessFailed == queue # <<>> /\ pages_saved < cfg.max_pages /\ ~last.failed

\* line 524: while queue and pages_saved < cfg.max_pages
LoopGoesOn == queue # <<>> /\ pages_saved < cfg.max_pages

\* lines 525-596: one turn of the breadth-first loop
BfsStep ==
    /\ pc = "bfs"
    /\ LoopGoesOn
    /\ LET url == Head(queue)[1]
           depth == Head(queue)[2]
       IN
       IF url \in visited
       THEN /\ queue' = Tail(queue)
            /\ UNCHANGED <<visited, fetchLog, last, documents, pages_saved>>
       ELSE \E resp \in Answers(url) :
              LET f == fetch_url(url, resp)
                  isPdf == ~IsNone(f.status) /\ ~IsNone(f.pdf_bytes)
                  isHtml == /\ ~IsNone(f.status) /\ IsNone(f.pdf_bytes)
                            /\ ~IsNone(f.html_text) /\ ~Get(f.html_text).empty
                  pdfText == IF isPdf THEN extract_pdf_text(Get(f.pdf_bytes)) ELSE EmptyText
                  page == IF isHtml THEN extract_html_text(Get(f.html_text))
                          ELSE [title |-> EmptyText, text |-> EmptyText, links |-> <<>>]
                  seen == MarkVisited(visited, url)
              IN  /\ visited' = seen
                  /\ fetchLog' = Append(fetchLog, url)
                  /\ last' = Fetched(url, "bfs", depth, resp,
                                 IF isPdf THEN "pdf" ELSE IF isHtml THEN "html" ELSE "none",
                                 IF isPdf THEN pdfText ELSE page.text,
                                 ~IsNone(f.status))
                  /\ IF isPdf /\ HasText(pdfText)
                     THEN /\ documents' = save_document(documents, cfg.jurisdiction,
                                              UrlFilename(url), pdfText, TRUE, Some(url))
                          /\ pages_saved' = pages_saved + 1
                     ELSE IF isHtml /\ HasText(page.text)
                     THEN /\ documents' = save_document(documents, cfg.jurisdiction,
                                              IF page.title # EmptyText THEN page.title
                                              ELSE UrlText(url),
                                              page.text, FALSE, Some(url))
                          /\ pages_saved' = pages_saved + 1
                     ELSE UNCHANGED <<documents, pages_saved>>
                  /\ queue' = IF isHtml
                              THEN Enqueue(Tail(queue),
                                           NewEntries(url, depth, page.links, seen, cfg))
                              ELSE Tail(queue)
    /\ UNCHANGED <<cfg, web, pc, run, pdf_i, firstCount, regulations, utilsDb, outcome>>

\* line 598: the loop is left and the count reported
Finish ==
    /\ pc = "bfs"
    /\ ~LoopGoesOn
    /\ pc' = "done"
    /\ firstCount' = IF run = "first" THEN Cardinality(documents.rows) ELSE firstCount
    /\ UNCHANGED <<cfg, web, run, visited, queue, pages_saved, pdf_i, documents,
                   fetchLog, last, regulations, utilsDb, outcome>>

(***************************************************************************)
(* The regulations tables of scrapper.py: one database per key of DB_PATHS *)
(* (lines 31-39), each with the table init_db creates (lines 54-71): an    *)
(* AUTOINCREMENT id, title, source_url UNIQUE, and content.                *)
(***************************************************************************)
ScrapperRegions == {"EU", "USA", "India", "China", "Japan", "France", "UK"}

\* init_db: every region's table exists and is empty
EmptyStores == [r \in ScrapperRegions |-> EmptyTable]

\* the row of tbl with this source_url: None, or Some(row)
RowOf(tbl, url) ==
    IF \E r \in tbl.rows : r.source_url = url
    THEN Some(CHOOSE r \in tbl.rows : r.source_url = url)
    ELSE None

\* lines 86-92: INSERT OR IGNORE INTO regulations (title, source_url, content)
InsertOrIgnore(tbl, title, url, content) ==
    IF \E r \in tbl.rows : r.source_url = url
    THEN tbl
    ELSE [rows |-> tbl.rows \cup
                     {[id |-> tbl.seq + 1, title |-> title,
                       source_url |-> url, content |-> content]},
          seq |-> tbl.seq + 1]

\* the UPDATE setting the content alone: ... SET content = ? WHERE source_url = ?
UpdateContentOnly(tbl, title, url, content) ==
    [tbl EXCEPT !.rows =
        {IF r.source_url = url THEN [r EXCEPT !.content = content] ELSE r :
            r \in tbl.rows}]

\* the UPDATE without its WHERE clause: every row of the table is set
UpdateEveryRow(tbl, title, url, content) ==
    [tbl EXCEPT !.rows =
        {[r EXCEPT !.title = title, !.content = content] : r \in tbl.rows}]

\* lines 96-103: UPDATE regulations SET title = ?, content = ? WHERE source_url = ?
UpdateByUrl(tbl, title, url, content) ==
    [tbl EXCEPT !.rows =
        {IF r.source_url = url
         THEN [r EXCEPT !.title = title, !.content = content]
         ELSE r : r \in tbl.rows}]

\* save_regulation with the UPDATE left out: insert-if-absent only
save_regulation_insert_only(tbl, title, url, content) ==
    InsertOrIgnore(tbl, title, url, content)

\* save_regulation with the UPDATE run whatever the content, NULL included
save_regulation_always_update(tbl, title, url, content) ==
    UpdateByUrl(InsertOrIgnore(tbl, title, url, content), title, url, content)

\* save_regulation, lines 85-103, on the table of the region's database
save_regulation(tbl, title, url, content) ==
    IF ~IsNone(content)
    THEN UpdateByUrl(InsertOrIgnore(tbl, title, url, content), title, url, content)
    ELSE InsertOrIgnore(tbl, title, url, content)

\* pdf_already_saved, lines 160-166:
\* SELECT 1 ... WHERE source_url = ? AND content IS NOT NULL AND content != ''
pdf_already_saved(tbl, url) ==
    \E r \in tbl.rows :
        r.source_url = url /\ ~IsNone(r.content) /\ Get(r.content) # EmptyText

\* DB_PATHS[region] of scrapper.py with an unknown key: KeyError(region)
KeyError(region) == [type |-> "KeyError", names |-> region, choices |-> None]

(***************************************************************************)
(* functions/utils.py: its own DB_PATHS (lines 8-14) and get_connection.   *)
(***************************************************************************)
UtilsRegions == {"EU", "USA", "India", "China", "Japan"}

\* line 20: ValueError(f"Région inconnue : {region} (choix: {list(DB_PATHS)})")
ValueError(region) ==
    [type |-> "ValueError", names |-> region, choices |-> Some(UtilsRegions)]

EmptyUtils == [r \in UtilsRegions |-> EmptyTable]

\* get_connection: None when the connection is opened, else the error raised
get_connection(region) ==
    IF region \notin UtilsRegions THEN Some(ValueError(region)) ELSE None

(***************************************************************************)
(* Calls on the stores.                                                    *)
(***************************************************************************)
MaxSeq == 2

\* region keys tried: configured everywhere, in scrapper.py only, nowhere
RegionKeys == {"EU", "France", "Mars"}
Jurisdictions == {"US", "JP"}
DocUrls == {None, Some(UrlA)}
RegUrls == {UrlA, UrlB}
Titles == {<<"T1">>, <<"T2">>}
Contents == {None, Some(EmptyText), Some(<<"c1">>)}

NoOutcome ==
    [op |-> "none", region |-> "", url |-> None, title |-> EmptyText,
     content |-> None, prior |-> None, raised |-> None, found |-> FALSE,
     keyword |-> EmptyText, limit |-> None, result |-> <<>>,
     fetched |-> <<>>, answer |-> None, page |-> None]

\* a call of save_document (crawler_scrapper.py, lines 218-257)
SaveDocumentCall ==
    \E j \in Jurisdictions, url \in DocUrls, title \in {<<"T1">>} :
        /\ documents.seq < MaxSeq
        /\ documents' = save_document(documents, j, title, <<"c1">>, FALSE, url)
        /\ outcome' = [NoOutcome EXCEPT !.op = "save_document", !.region = j,
                                        !.url = url, !.title = title,
                                        !.content = Some(<<"c1">>)]
        /\ UNCHANGED <<crawlVars, regulations, utilsDb>>

\* a call of save_regulation (scrapper.py, lines 74-106)
SaveRegulationCall(regions, titles, urls, contents) ==
    \E region \in regions, title \in titles, url \in urls, content \in contents :
        /\ IF region \notin ScrapperRegions
           THEN /\ outcome' = [NoOutcome EXCEPT !.op = "save_regulation",
                                  !.region = region, !.url = Some(url),
                                  !.title = title, !.content = content,
                                  !.raised = Some(KeyError(region))]
                /\ UNCHANGED regulations
           ELSE /\ regulations' = [regulations EXCEPT ![region] =
                                      save_regulation(@, title, url, content)]
                /\ outcome' = [NoOutcome EXCEPT !.op = "save_regulation",
                                  !.region = region, !.url = Some(url),
                                  !.title = title, !.content = content,
                                  !.prior = IF IsNone(RowOf(regulations[region], url))
                                            THEN None
                                            ELSE Some(Get(RowOf(regulations[region], url)).content)]
        /\ UNCHANGED <<crawlVars, documents, utilsDb>>

\* a call of pdf_already_saved (scrapper.py, lines 155-166)
PdfAlreadySavedCall(regions, urls) ==
    \E region \in regions, url \in urls :
        /\ outcome' = IF region \notin ScrapperRegions
                      THEN [NoOutcome EXCEPT !.op = "pdf_already_saved",
                               !.region = region, !.url = Some(url),
                               !.raised = Some(KeyError(region))]
                      ELSE [NoOutcome EXCEPT !.op = "pdf_already_saved",
                               !.region = region, !.url = Some(url),
                               !.found = pdf_already_saved(regulations[region], url)]
        /\ UNCHANGED <<crawlVars, documents, regulations, utilsDb>>

\* a call of get_connection (utils.py, lines 17-21), as every query of utils.py
\* makes first
GetConnectionCall ==
    \E region \in RegionKeys :
        /\ outcome' = [NoOutcome EXCEPT !.op = "get_connection", !.region = region,
                                        !.raised = get_connection(region)]
        /\ UNCHANGED <<crawlVars, documents, regulations, utilsDb>>

(***************************************************************************)
(* The queries of functions/utils.py.  They read the regulations table of  *)
(* the region's database under utils.py's own BASE_DIR; nothing under src  *)
(* writes those databases, so their rows are inputs.  Of a row the model   *)
(* keeps id, title, source_url and content (pdf_url and retrieved_at are   *)
(* only passed through).                                                   *)
(***************************************************************************)
SnippetLen == 300
DefaultLimit == 50

Smaller(a, b) == IF a <= b THEN a ELSE b

\* ORDER BY id
RECURSIVE SortById(_)
SortById(rows) ==
    IF rows = {} THEN <<>>
    ELSE LET first == CHOOSE r \in rows : \A q \in rows : r.id <= q.id
         IN  <<first>> \o SortById(rows \ {first})

\* LIMIT {int(limit)}, added when limit is not None; SQLite takes a negative
\* LIMIT for no limit
SqlLimit(rows, limit) ==
    IF IsNone(limit) \/ Get(limit) < 0 THEN rows
    ELSE SubSeq(rows, 1, Smaller(Get(limit), Len(rows)))

\* SQLite's LIKE on two texts: % stands for any run of characters, _ for any one
\* character, and letters match whatever their case
RECURSIVE Like(_, _)
Like(text, pattern) ==
    IF pattern = <<>> THEN text = <<>>
    ELSE IF Head(pattern) = "%"
    THEN Like(text, Tail(pattern)) \/ (text # <<>> /\ Like(Tail(text), pattern))
    ELSE IF text = <<>> THEN FALSE
    ELSE IF Head(pattern) = "_" THEN Like(Tail(text), Tail(pattern))
    ELSE /\ LowerTok(Head(text)) = LowerTok(Head(pattern))
         /\ Like(Tail(text), Tail(pattern))

\* column LIKE ? in a WHERE clause: a NULL column does not match
ColumnLike(value, pattern) == ~IsNone(value) /\ Like(Get(value), pattern)

\* substr(content, 1, n)
Substr(value, n) ==
    IF IsNone(value) THEN None
    ELSE Some(SubSeq(Get(value), 1, Smaller(n, Len(Get(value)))))

\* search_by_keyword, lines 55-70
search_by_keyword(tbl, keyword, limit) ==
    LET like == <<"%">> \o keyword \o <<"%">>
        hits == {r \in tbl.rows : Like(r.title, like) \/ ColumnLike(r.content, like)}
        rows == SqlLimit(SortById(hits), limit)
    IN  [i \in 1..Len(rows) |->
            [id |-> rows[i].id, title |-> rows[i].title,
             source_url |-> rows[i].source_url,
             snippet |-> Substr(rows[i].content, SnippetLen)]]

\* get_all_records, lines 26-34
get_all_records(tbl, limit) ==
    LET rows == SqlLimit(SortById(tbl.rows), limit)
    IN  [i \in 1..Len(rows) |->
            [id |-> rows[i].id, title |-> rows[i].title,
             source_url |-> rows[i].source_url]]

\* get_record_by_id, lines 39-48: the row, or None
get_record_by_id(tbl, record_id) ==
    IF \E r \in tbl.rows : r.id = record_id
    THEN Some(CHOOSE r \in tbl.rows : r.id = record_id)
    ELSE None

\* count_records, lines 75-80
count_records(tbl) == Cardinality(tbl.rows)

UtilsRows ==
    { [id |-> 1, title |-> <<"x">>, source_url |-> UrlA, content |-> Some(<<"b", "p">>)],
      [id |-> 2, title |-> <<"y">>, source_url |-> UrlB, content |-> None],
      [id |-> 3, title |-> <<"B">>, source_url |-> UrlC, content |-> Some(EmptyText)],
      [id |-> 4, title |-> <<"y">>, source_url |-> UrlD, content |-> Some(<<"p", "b">>)] }

UtilsTables == {[rows |-> rs, seq |-> 4] : rs \in SUBSET UtilsRows}

Keywords == { <<"b">>, <<"B">>, <<"b", "p">>, <<"_">>, <<"%">>, <<"z">>, EmptyText }
Limits == { None, Some(0), Some(1), Some(DefaultLimit) }

\* a call of search_by_keyword
SearchByKeywordCall ==
    \E region \in RegionKeys, keyword \in Keywords, limit \in Limits :
        /\ outcome' =
              IF ~IsNone(get_connection(region))
              THEN [NoOutcome EXCEPT !.op = "search_by_keyword", !.region = region,
                       !.keyword = keyword, !.limit = limit,
                       !.raised = get_connection(region)]
              ELSE [NoOutcome EXCEPT !.op = "search_by_keyword", !.region = region,
                       !.keyword = keyword, !.limit = limit,
                       !.result = search_by_keyword(utilsDb[region], keyword, limit)]
        /\ UNCHANGED <<crawlVars, documents, regulations, utilsDb>>

\* a call of get_all_records
GetAllRecordsCall ==
    \E region \in RegionKeys, limit \in Limits :
        /\ outcome' =
              IF ~IsNone(get_connection(region))
              THEN [NoOutcome EXCEPT !.op = "get_all_records", !.region = region,
                       !.limit = limit, !.raised = get_connection(region)]
              ELSE [NoOutcome EXCEPT !.op = "get_all_records", !.region = region,
                       !.limit = limit,
                       !.result = get_all_records(utilsDb[region], limit)]
        /\ UNCHANGED <<crawlVars, documents, regulations, utilsDb>>

\* a call of get_record_by_id
GetRecordByIdCall ==
    \E region \in RegionKeys, record_id \in 1..2 :
        /\ outcome' =
              IF ~IsNone(get_connection(region))
              THEN [NoOutcome EXCEPT !.op = "get_record_by_id", !.region = region,
                       !.raised = get_connection(region)]
              ELSE [NoOutcome EXCEPT !.op = "get_record_by_id", !.region = region,
                       !.result = get_record_by_id(utilsDb[region], record_id)]
        /\ UNCHANGED <<crawlVars, documents, regulations, utilsDb>>

\* a call of count_records
CountRecordsCall ==
    \E region \in RegionKeys :
        /\ outcome' =
              IF ~IsNone(get_connection(region))
              THEN [NoOutcome EXCEPT !.op = "count_records", !.region = region,
                       !.raised = get_connection(region)]
              ELSE [NoOutcome EXCEPT !.op = "count_records", !.region = region,
                       !.result = <<count_records(utilsDb[region])>>]
        /\ UNCHANGED <<crawlVars, documents, regulations, utilsDb>>

(***************************************************************************)
(* The scrapers of scrapper.py: scrape_pdf_and_save, scrape_text_page and  *)
(* parse_ais_table, each a function from the region's table and what the   *)
(* network answers to the table it leaves.  A page body carries title_tag  *)
(* (None without a <title> tag, else its stripped text), the text          *)
(* soup.get_text finds and its <a href> tags with their link texts.        *)
(***************************************************************************)
\* requests' raise_for_status: an HTTPError for a 4xx or 5xx status
RaisesForStatus(status) == 400 <= status /\ status < 600

\* fetch_html, lines 113-122: resp.text, None when the request raised
fetch_html(resp) ==
    IF resp.exc \/ RaisesForStatus(resp.status) THEN None ELSE Some(resp.body)

\* fetch_pdf_bytes, lines 125-137: resp.content, None when the request raised
fetch_pdf_bytes(resp) ==
    IF resp.exc \/ RaisesForStatus(resp.status) THEN None ELSE Some(resp.body)

\* str.strip(): " " is the whitespace token
RECURSIVE StripLeft(_)
StripLeft(t) == IF t # <<>> /\ Head(t) = " " THEN StripLeft(Tail(t)) ELSE t

RECURSIVE StripRight(_)
StripRight(t) ==
    IF t # <<>> /\ t[Len(t)] = " " THEN StripRight(SubSeq(t, 1, Len(t) - 1)) ELSE t

Strip(t) == StripRight(StripLeft(t))

\* extract_pdf_text of scrapper.py, lines 140-152: the stripped text, None for none
scrapper_extract_pdf_text(pdf_bytes) ==
    IF pdf_bytes.pdfminer = EmptyText THEN None
    ELSE IF Strip(pdf_bytes.pdfminer) = EmptyText THEN None
    ELSE Some(Strip(pdf_bytes.pdfminer))

\* `a or b` on an Optional[str] a: b when a is None or ""
OrElse(a, b) == IF IsNone(a) \/ Get(a) = EmptyText THEN b ELSE Get(a)

\* the text scrape_pdf_and_save would store: None when the download fails, the
\* body is empty or no text is extracted (lines 175-181)
PdfTextOf(resp) ==
    LET pdf_bytes == fetch_pdf_bytes(resp)
    IN  IF IsNone(pdf_bytes) \/ Get(pdf_bytes).empty THEN None
        ELSE scrapper_extract_pdf_text(Get(pdf_bytes))

\* scrape_pdf_and_save that downloads and saves whatever the table holds
scrape_pdf_and_save_always(tbl, pdf_url, title_hint, resp) ==
    IF IsNone(PdfTextOf(resp)) THEN tbl
    ELSE save_regulation(tbl,
             OrElse(title_hint, OrElse(Some(UrlFilename(pdf_url)), UrlText(pdf_url))),
             pdf_url, PdfTextOf(resp))

\* scrape_pdf_and_save, lines 169-188
scrape_pdf_and_save(tbl, pdf_url, title_hint, resp) ==
    IF pdf_already_saved(tbl, pdf_url) THEN tbl
    ELSE IF IsNone(PdfTextOf(resp)) THEN tbl
    ELSE save_regulation(tbl,
             OrElse(title_hint, OrElse(Some(UrlFilename(pdf_url)), UrlText(pdf_url))),
             pdf_url, PdfTextOf(resp))

\* an <a href> tag of a page: its href and its link text
Anchor(href, text) == [href |-> href, text |-> text]

\* lines 216-225: the set of (full_url, link_text) of the links that end with .pdf
PdfLinks(url, page) ==
    { <<urljoin(url, page.hrefs[i].href),
        OrElse(Some(page.hrefs[i].text),
               UrlFilename(urljoin(url, page.hrefs[i].href)))>> :
        i \in { k \in 1..Len(page.hrefs) :
                  /\ page.hrefs[k].href.kind # "blank"
                  /\ is_pdf_url(urljoin(url, page.hrefs[k].href)) } }

\* the orders in which a for loop may go through a set
Orders(S) ==
    { o \in [1..Cardinality(S) -> S] : \A i, j \in 1..Cardinality(S) : o[i] = o[j] => i = j }

\* lines 229-231: scrape_pdf_and_save for each PDF link, in the order of the loop
RECURSIVE ScrapePdfs(_, _, _, _)
ScrapePdfs(tbl, order, answers, page_title) ==
    IF order = <<>> THEN tbl
    ELSE ScrapePdfs(scrape_pdf_and_save(tbl, Head(order)[1],
                        Some(page_title \o <<" - ">> \o Head(order)[2]),
                        answers[Head(order)]),
                    Tail(order), answers, page_title)

\* line 207: title_hint or (soup.title.get_text(strip=True) if soup.title else url)
PageTitle(url, title_hint, page) ==
    OrElse(title_hint, IF IsNone(page.title_tag) THEN UrlText(url) ELSE Get(page.title_tag))

\* scrape_text_page, lines 195-233
scrape_text_page(tbl, url, title_hint, resp, order, answers) ==
    LET html == fetch_html(resp)
    IN  IF IsNone(html) \/ Get(html).empty THEN tbl
        ELSE ScrapePdfs(save_regulation(tbl, PageTitle(url, title_hint, Get(html)),
                                        url, Some(Get(html).text)),
                        order, answers, PageTitle(url, title_hint, Get(html)))

\* INDIA_AIS_BASE, line 332
INDIA_AIS_BASE == Url("https", <<"m", ".", "i">>, <<"/", "ais">>)

PdfMarker == "--- PDF TEXT ---"

\* a <tr> of the AIS table: the texts of its <td> cells and its first <a href>
AisRow(cells, href) == [cells |-> cells, href |-> href]

\* line 374: the URL the row is stored under
AisUrl(row) ==
    IF IsNone(row.href) THEN INDIA_AIS_BASE ELSE urljoin(INDIA_AIS_BASE, Get(row.href))

\* lines 379-385: the metadata lines of a row
AisMeta(row) ==
    <<"AIS code:">> \o row.cells[2]
        \o <<"Subject:">> \o row.cells[3]
        \o <<"Status:">> \o (IF Len(row.cells) > 3 THEN row.cells[4] ELSE EmptyText)
        \o <<"Date:">> \o row.cells[Len(row.cells)]
        \o <<"PDF:">> \o UrlText(AisUrl(row))

\* lines 388-404: the metadata, then the marker and the PDF text when the PDF
\* was downloaded in this run and text was extracted from it
AisContent(tbl, row, resp) ==
    IF /\ ~IsNone(row.href)
       /\ ~pdf_already_saved(tbl, AisUrl(row))
       /\ ~IsNone(PdfTextOf(resp))
    THEN AisMeta(row) \o <<PdfMarker>> \o Get(PdfTextOf(resp))
    ELSE AisMeta(row)

\* lines 358-406 for one <tr>
AisSaveRow(tbl, row, resp) ==
    IF Len(row.cells) < 3 THEN tbl
    ELSE save_regulation(tbl,
             Strip(row.cells[2] \o <<" ", "-", " ">> \o row.cells[3]),
             AisUrl(row), Some(AisContent(tbl, row, resp)))

RECURSIVE AisSaveRows(_, _, _, _)
AisSaveRows(tbl, rows, answers, i) ==
    IF i > Len(rows) THEN tbl
    ELSE AisSaveRows(AisSaveRow(tbl, rows[i], answers[i]), rows, answers, i + 1)

\* parse_ais_table, lines 335-408, on India's table: soup is None when the page
\* holds no AIS table, else the rows of that table
parse_ais_table(tbl, soup, answers) ==
    IF IsNone(soup) THEN tbl ELSE AisSaveRows(tbl, Get(soup), answers, 1)

\* what the network answers to the download of a PDF
PdfAnswers ==
    { Failure,
      Response(FALSE, 404, "application/pdf", PdfBody(<<"p">>)),
      Response(FALSE, 200, "application/pdf", PdfBody(<<"p">>)),
      Response(FALSE, 200, "application/pdf", PdfBody(<<" ">>)),
      Response(FALSE, 200, "text/html", EmptyBody) }

\* what the network answers to the download of a PDF linked from a page
LinkAnswers ==
    { Failure,
      Response(FALSE, 200, "application/pdf", PdfBody(<<"p">>)) }

\* what the network answers to the download of the PDF of an AIS row
AisAnswers ==
    { Failure,
      Response(FALSE, 200, "application/pdf", PdfBody(<<"p">>)),
      Response(FALSE, 200, "application/pdf", PdfBody(EmptyText)) }

PageBody(title_tag, text, hrefs) ==
    [magic |-> FALSE, empty |-> FALSE, pdfminer |-> EmptyText,
     title_tag |-> title_tag, text |-> text, hrefs |-> hrefs]

EmptyPage ==
    [magic |-> FALSE, empty |-> TRUE, pdfminer |-> EmptyText,
     title_tag |-> None, text |-> EmptyText, hrefs |-> <<>>]

PageBodies ==
    { PageBody(Some(<<"T">>), <<"c1">>, <<>>),
      PageBody(Some(EmptyText), <<"c1">>, <<Anchor(HrefAbs(UrlC), <<"L">>)>>),
      PageBody(None, EmptyText, <<Anchor(HrefBlank, EmptyText)>>),
      PageBody(None, <<"c2">>,
               <<Anchor(HrefAbs(UrlB), <<"L">>), Anchor(HrefAbs(UrlB), EmptyText)>>) }

\* what the network answers to the GET of a page
PageAnswers ==
    { Failure,
      Response(FALSE, 404, "text/html", PageBody(Some(<<"T">>), <<"c1">>, <<>>)),
      Response(FALSE, 200, "text/html", EmptyPage) }
    \cup { Response(FALSE, 200, "text/html", b) : b \in PageBodies }

AisPages ==
    { None,
      Some(<< AisRow(<< <<"1">>, <<"A1">>, <<"S1">>, <<"ok">>, <<"d1">> >>,
                     Some(HrefAbs(UrlB))) >>),
      Some(<< AisRow(<< <<"1">>, <<"A1">>, <<"S1">>, <<"ok">>, <<"d1">> >>,
                     Some(HrefAbs(UrlB))),
              AisRow(<< <<"2">>, <<"A2">>, EmptyText >>, None) >>),
      Some(<< AisRow(<< <<"3">>, <<"A3">>, <<"S3">> >>, Some(HrefAbs(UrlP))),
              AisRow(<< <<"4">>, <<"A4">> >>, Some(HrefAbs(UrlB))) >>) }

\* the content the row of `url` holds: None when no row, else Some(content)
PriorContent(tbl, url) ==
    IF IsNone(RowOf(tbl, url)) THEN None ELSE Some(Get(RowOf(tbl, url)).content)

\* a call of scrape_pdf_and_save
ScrapePdfAndSaveCall ==
    \E pdf_url \in {UrlB, UrlD}, title_hint \in {None, Some(<<"H">>)},
       resp \in PdfAnswers :
        LET tbl == regulations["EU"]
            found == pdf_already_saved(tbl, pdf_url)
        IN  /\ regulations' = [regulations EXCEPT !["EU"] =
                                  scrape_pdf_and_save(tbl, pdf_url, title_hint, resp)]
            /\ outcome' = [NoOutcome EXCEPT !.op = "scrape_pdf_and_save",
                              !.region = "EU", !.url = Some(pdf_url),
                              !.prior = PriorContent(tbl, pdf_url),
                              !.found = found,
                              !.fetched = IF found THEN <<>> ELSE <<pdf_url>>,
                              !.answer = IF found THEN None ELSE Some(resp)]
            /\ UNCHANGED <<crawlVars, documents, utilsDb>>

\* a call of scrape_text_page
ScrapeTextPageCall ==
    \E url \in {UrlA}, title_hint \in {None, Some(<<"H">>)}, resp \in PageAnswers :
        LET tbl == regulations["EU"]
            html == fetch_html(resp)
            links == IF IsNone(html) \/ Get(html).empty THEN {}
                     ELSE PdfLinks(url, Get(html))
        IN  \E order \in Orders(links), answers \in [links -> LinkAnswers] :
                /\ regulations' = [regulations EXCEPT !["EU"] =
                        scrape_text_page(tbl, url, title_hint, resp, order, answers)]
                /\ outcome' = [NoOutcome EXCEPT !.op = "scrape_text_page",
                                  !.region = "EU", !.url = Some(url),
                                  !.prior = PriorContent(tbl, url),
                                  !.fetched = <<url>>,
                                  !.answer = Some(resp)]
                /\ UNCHANGED <<crawlVars, documents, utilsDb>>

\* a call of parse_ais_table on the soup of an AIS page
ParseAisTableCall ==
    \E soup \in AisPages :
        \E answers \in [1..(IF IsNone(soup) THEN 0 ELSE Len(Get(soup))) -> AisAnswers] :
            /\ regulations' = [regulations EXCEPT !["India"] =
                                  parse_ais_table(@, soup, answers)]
            /\ outcome' = [NoOutcome EXCEPT !.op = "parse_ais_table",
                              !.region = "India", !.page = Some(soup)]
            /\ UNCHANGED <<crawlVars, documents, utilsDb>>

(***************************************************************************)
(* Specifications.                                                         *)
(***************************************************************************)
IdleCrawler ==
    /\ web = None
    /\ pc = "idle"
    /\ run = "first"
    /\ visited = {}
    /\ queue = <<>>
    /\ pages_saved = 0
    /\ pdf_i = 1
    /\ fetchLog = <<>>
    /\ last = NoFetch
    /\ firstCount = 0

EmptyDatabases ==
    /\ documents = EmptyTable
    /\ regulations = EmptyStores
    /\ utilsDb = EmptyUtils
    /\ outcome = NoOutcome

\* one run of crawl_generic, whatever the network answers
Init ==
    /\ cfg \in Configs
    /\ IdleCrawler
    /\ EmptyDatabases

Next ==
    \/ StartCrawl
    \/ DirectPdf
    \/ EnterBfs
    \/ BfsStep
    \/ Finish

Spec == Init /\ [][Next]_vars

\* crawl_generic is sequential code: while a step is left it is taken
FairSpec == Init /\ [][Next]_vars /\ WF_vars(Next)

\* any sequence of calls on the stores
InitStore ==
    /\ cfg = Config(<<>>, <<>>, 0, 0)
    /\ IdleCrawler
    /\ EmptyDatabases

NextStore ==
    \/ SaveDocumentCall
    \/ SaveRegulationCall(RegionKeys, {<<"T1">>}, {UrlA}, {None, Some(<<"c1">>)})
    \/ PdfAlreadySavedCall(RegionKeys, {UrlA})
    \/ GetConnectionCall

SpecStore == InitStore /\ [][NextStore]_vars

\* any sequence of calls on one region's regulations table
NextRegs ==
    \/ SaveRegulationCall({"EU", "Mars"}, Titles, RegUrls, Contents)
    \/ PdfAlreadySavedCall({"EU", "Mars"}, RegUrls)

SpecRegs == InitStore /\ [][NextRegs]_vars

\* any sequence of calls of scrape_pdf_and_save and scrape_text_page on the EU
\* table, and of title-only saves
NextScrape ==
    \/ SaveRegulationCall({"EU"}, {<<"T1">>}, {UrlB}, {None})
    \/ ScrapePdfAndSaveCall
    \/ ScrapeTextPageCall

SpecScrape == InitStore /\ [][NextScrape]_vars

\* any sequence of runs of parse_ais_table, and of title-only saves, on India
NextAis ==
    \/ ParseAisTableCall
    \/ SaveRegulationCall({"India"}, {<<"T1">>}, {UrlB, UrlP}, {None})

SpecAis == InitStore /\ [][NextAis]_vars

\* any sequence of writes of the two stores, over two jurisdictions and two
\* regions
NextKeys ==
    \/ SaveDocumentCall
    \/ SaveRegulationCall({"EU", "France"}, {<<"T1">>}, RegUrls, {None, Some(<<"c1">>)})

SpecKeys == InitStore /\ [][NextKeys]_vars

\* any sequence of queries of utils.py over any table of the EU database
InitUtils ==
    /\ cfg = Config(<<>>, <<>>, 0, 0)
    /\ IdleCrawler
    /\ documents = EmptyTable
    /\ regulations = EmptyStores
    /\ utilsDb \in {[r \in UtilsRegions |-> IF r = "EU" THEN t ELSE EmptyTable] :
                        t \in UtilsTables}
    /\ outcome = NoOutcome

NextUtils ==
    \/ GetConnectionCall
    \/ SearchByKeywordCall
    \/ GetAllRecordsCall
    \/ GetRecordByIdCall
    \/ CountRecordsCall

SpecUtils == InitUtils /\ [][NextUtils]_vars

(***************************************************************************)
(* Two runs of crawl_generic, with the same configuration, against a fixed *)
(* set of pages: every URL has one answer, the same in both runs.          *)
(***************************************************************************)
PageLinked == Response(FALSE, 200, "text/html", HtmlBody(<<"T">>, <<"t">>, LinksScenario))
PageOfPdf  == Response(FALSE, 200, "application/pdf", PdfBody(<<"p">>))

StaticUrls  == {UrlA, UrlB, UrlD, UrlP}
StaticPages == {PageLinked, PageOfPdf, Failure}

\* main() calling crawl_generic again with the same cfg and the same connection
Rerun ==
    /\ pc = "done"
    /\ run = "first"
    /\ run' = "second"
    /\ pc' = "idle"
    /\ UNCHANGED <<cfg, web, visited, queue, pages_saved, pdf_i, documents,
                   fetchLog, last, firstCount, regulations, utilsDb, outcome>>

InitStatic ==
    /\ cfg \in Configs
    /\ web \in {Some(w) : w \in [StaticUrls -> StaticPages]}
    /\ pc = "idle"
    /\ run = "first"
    /\ visited = {}
    /\ queue = <<>>
    /\ pages_saved = 0
    /\ pdf_i = 1
    /\ fetchLog = <<>>
    /\ last = NoFetch
    /\ firstCount = 0
    /\ EmptyDatabases

NextStatic ==
    \/ StartCrawl
    \/ DirectPdf
    \/ EnterBfs
    \/ BfsStep
    \/ Finish
    \/ Rerun

SpecStatic == InitStatic /\ [][NextStatic]_vars

\* crawl runs over a static web while other callers write to the same stores
WriterConfigs == {Config(<<UrlA>>, <<UrlB>>, 1, 2)}
WriterWebs == {Some([u \in StaticUrls |-> p]) : p \in {PageLinked, PageOfPdf}}

InitWrites ==
    /\ cfg \in WriterConfigs
    /\ web \in WriterWebs
    /\ pc = "idle"
    /\ run = "first"
    /\ visited = {}
    /\ queue = <<>>
    /\ pages_saved = 0
    /\ pdf_i = 1
    /\ fetchLog = <<>>
    /\ last = NoFetch
    /\ firstCount = 0
    /\ EmptyDatabases

NextWrites ==
    \/ StartCrawl
    \/ DirectPdf
    \/ EnterBfs
    \/ BfsStep
    \/ Finish
    \/ Rerun
    \/ SaveDocumentCall
    \/ SaveRegulationCall({"EU"}, {<<"T1">>}, {UrlA, UrlB}, {None, Some(<<"c1">>)})

SpecWrites == InitWrites /\ [][NextWrites]_vars

(***************************************************************************)
(* What the claims speak of.                                               *)
(***************************************************************************)
Range(seq) == {seq[i] : i \in 1..Len(seq)}

\* the host of url ends with one of the allowed domains
HostAllowed(url, c) ==
    \E d \in Range(c.allowed_domains) : EndsWith(Lower(url.netloc), Lower(d))

\* url passes the allow-list test
AllowListed(url, c) == url.scheme \in {"http", "https"} /\ HostAllowed(url, c)

Configured(c) == Range(c.start_urls) \cup Range(c.extra_pdf_urls)

PersistedUrls == {Get(r.url) : r \in documents.rows}

Larger(a, b) == IF a >= b THEN a ELSE b

(***************************************************************************)
(* C1.  As claimed: in a run of crawl_generic the number of documents      *)
(* persisted, direct-PDF phase included, never exceeds cfg.max_pages.      *)
(***************************************************************************)
C1_BudgetNeverExceeded == pages_saved <= cfg.max_pages

\* C1 as amended: the breadth-first phase persists a document only while
\* pages_saved < cfg.max_pages, and the direct-PDF phase at most one per entry of
\* extra_pdf_urls whatever max_pages is: pages_saved never exceeds the larger of
\* cfg.max_pages and len(cfg.extra_pdf_urls).
C1_BudgetBoundsBfs ==
    /\ pages_saved <= Larger(cfg.max_pages, Len(cfg.extra_pdf_urls))
    /\ pc = "pdfs" => pages_saved <= pdf_i - 1

\* the budget stopped the breadth-first loop with URLs still queued
C1_BudgetStopsLoop ==
    /\ pc = "done"
    /\ queue # <<>>
    /\ cfg.max_pages > 0
    /\ pages_saved = cfg.max_pages

(***************************************************************************)
(* C2.  As claimed: every document persisted by crawl_generic has a URL    *)
(* whose host ends with one of cfg.allowed_domains.                        *)
(***************************************************************************)
C2_EveryPersistedAllowed ==
    \A u \in PersistedUrls : HostAllowed(u, cfg)

\* C2 as amended: every document persisted from a discovered link (a URL that is
\* neither a start URL nor an extra PDF URL) has a host that ends with one of
\* cfg.allowed_domains.
C2_DiscoveredAllowed ==
    \A u \in PersistedUrls : u \notin Configured(cfg) => HostAllowed(u, cfg)

\* a discovered document is persisted, next to a configured one off the allow-list
C2_DiscoveredPersisted ==
    /\ \E u \in PersistedUrls : u \notin Configured(cfg)
    /\ \E u \in PersistedUrls : ~HostAllowed(u, cfg)

(***************************************************************************)
(* C3.  Every queued (url, depth) has 0 <= depth <= cfg.max_depth, and no  *)
(* page is fetched at a depth beyond cfg.max_depth.                        *)
(***************************************************************************)
C3_DepthBound ==
    /\ \A i \in 1..Len(queue) : 0 <= queue[i][2] /\ queue[i][2] <= cfg.max_depth
    /\ 0 <= last.depth /\ last.depth <= cfg.max_depth

\* an HTML page with links to follow is fetched at the deepest level, and links
\* found one level up are queued at that level
C3_DeepestFetched ==
    /\ cfg.max_depth >= 1
    /\ last.depth = cfg.max_depth
    /\ last.route = "html"
    /\ \E i \in 1..Len(queue) : queue[i][2] = cfg.max_depth

(***************************************************************************)
(* C4.  Against a fixed set of pages, a second run with the same           *)
(* configuration leaves documents with as many rows as the first run did.  *)
(***************************************************************************)
C4_SecondRunSameCount ==
    run = "second" => Cardinality(documents.rows) = firstCount

\* the second run is over and has persisted again what the first one stored
C4_SecondRunDone ==
    /\ run = "second"
    /\ pc = "done"
    /\ pages_saved >= 2
    /\ firstCount >= 2

(***************************************************************************)
(* C6.  No URL that fails the allow-list test is fetched unless it is a    *)
(* start URL or an extra PDF URL; and with the seed A alone, A linking to  *)
(* D (allowed) and C (not allowed), max_depth 1, max_pages 10 and text on  *)
(* every page, exactly A and D are persisted and C is never fetched.       *)
(***************************************************************************)
ScenarioC6 ==
    /\ cfg.start_urls = <<UrlA>>
    /\ cfg.extra_pdf_urls = <<>>
    /\ cfg.max_depth = 1
    /\ cfg.max_pages = 10
    /\ ~IsNone(web)
    /\ Get(web)[UrlA] = PageLinked
    /\ Get(web)[UrlD] \in {PageLinked, PageOfPdf}

C6_OnlyAllowedFetched ==
    /\ \A u \in Range(fetchLog) : AllowListed(u, cfg) \/ u \in Configured(cfg)
    /\ (ScenarioC6 /\ pc = "done") =>
          /\ PersistedUrls = {UrlA, UrlD}
          /\ UrlC \notin Range(fetchLog)

\* the scenario has run to its end
C6_ScenarioDone == ScenarioC6 /\ pc = "done" /\ Len(fetchLog) = 2

(***************************************************************************)
(* C8.  As claimed: on a 2xx fetch a body that starts with %PDF goes to    *)
(* PDF extraction, and a body that does not never goes to PDF extraction,  *)
(* whatever the Content-Type and the URL suffix.                           *)
(***************************************************************************)
C8_RoutedByMagic ==
    last.ok => IF last.magic THEN last.route = "pdf" ELSE last.route # "pdf"

(***************************************************************************)
(* C5.  As claimed: after any sequence of store writes no two rows of      *)
(* documents share (jurisdiction, url), url being any value Optional[str]  *)
(* admits, and no two rows of a region's regulations share source_url.     *)
(***************************************************************************)
C5_OneRowPerKey ==
    /\ \A r1, r2 \in documents.rows :
          (r1.jurisdiction = r2.jurisdiction /\ r1.url = r2.url) => r1 = r2
    /\ \A region \in ScrapperRegions :
          \A r1, r2 \in regulations[region].rows :
              r1.source_url = r2.source_url => r1 = r2

(***************************************************************************)
(* C7.  Backfill: when the region's table holds a row for u whose content  *)
(* is NULL or empty, save_regulation(region, title, u, c) with a non-empty *)
(* c leaves exactly one row with source_url = u, and its content is c.     *)
(***************************************************************************)
BackfillCall ==
    /\ outcome.op = "save_regulation"
    /\ IsNone(outcome.raised)
    /\ ~IsNone(outcome.prior)
    /\ (IsNone(Get(outcome.prior)) \/ Get(Get(outcome.prior)) = EmptyText)
    /\ ~IsNone(outcome.content)
    /\ Get(outcome.content) # EmptyText

C7_BackfillOneRow ==
    BackfillCall =>
        LET matching == {r \in regulations[outcome.region].rows :
                            r.source_url = Get(outcome.url)}
        IN  /\ Cardinality(matching) = 1
            /\ \A r \in matching : r.content = outcome.content

\* a backfill of a NULL content has happened in a table that holds another URL too
C7_Backfilled ==
    /\ BackfillCall
    /\ IsNone(Get(outcome.prior))
    /\ Cardinality(regulations[outcome.region].rows) = 2

(***************************************************************************)
(* C9.  As claimed: search_by_keyword returns exactly the rows whose title *)
(* or content contains the keyword as a substring, in ascending id order,  *)
(* cut to the first `limit` rows when limit is not None.                   *)
(***************************************************************************)
\* word occurs in text, letters compared whatever their case
Contains(text, word) ==
    \E i \in 0..(Len(text) - Len(word)) :
        Lower(SubSeq(text, i + 1, i + Len(word))) = Lower(word)

C9_SearchIsSubstring ==
    (outcome.op = "search_by_keyword" /\ IsNone(outcome.raised)) =>
        LET tbl == utilsDb[outcome.region]
            hits == {r \in tbl.rows :
                        \/ Contains(r.title, outcome.keyword)
                        \/ ~IsNone(r.content) /\ Contains(Get(r.content), outcome.keyword)}
            sorted == SortById(hits)
            n == IF IsNone(outcome.limit) THEN Len(sorted)
                 ELSE Smaller(Get(outcome.limit), Len(sorted))
        IN  [i \in 1..Len(outcome.result) |-> outcome.result[i].id]
              = [i \in 1..n |-> sorted[i].id]

(***************************************************************************)
(* C10.  As claimed: every store operation given a region key that is not  *)
(* configured fails with an error that names the key and lists the valid   *)
(* region keys.                                                            *)
(***************************************************************************)
C10_UnknownRegionExplained ==
    LET valid == IF outcome.op \in {"save_regulation", "pdf_already_saved"}
                 THEN ScrapperRegions ELSE UtilsRegions
    IN  (outcome.op # "none" /\ outcome.op # "save_document"
            /\ outcome.region \notin valid) =>
            /\ ~IsNone(outcome.raised)
            /\ Get(outcome.raised).names = outcome.region
            /\ Get(outcome.raised).choices = Some(valid)

(***************************************************************************)
(* C11.  No record is ever deleted: whatever step is taken (a call of      *)
(* save_document or save_regulation, a step of a crawl run), every         *)
(* identity key present in a table before the step is present after it,    *)
(* and no table's row count decreases.                                     *)
(***************************************************************************)
DocKeys(tbl) == {<<r.jurisdiction, r.url>> : r \in tbl.rows}

RegKeys(tbl) == {r.source_url : r \in tbl.rows}

C11_NothingDeleted ==
    [][ /\ DocKeys(documents) \subseteq DocKeys(documents')
        /\ Cardinality(documents'.rows) >= Cardinality(documents.rows)
        /\ \A region \in ScrapperRegions :
              /\ RegKeys(regulations[region]) \subseteq RegKeys(regulations'[region])
              /\ Cardinality(regulations'[region].rows)
                    >= Cardinality(regulations[region].rows) ]_vars

\* rows have been replaced in place during a second crawl run, next to rows of
\* another jurisdiction and of a regulations table
C11_ReplacedInPlace ==
    /\ run = "second"
    /\ pages_saved >= 1
    /\ documents.seq > Cardinality(documents.rows)
    /\ Cardinality(DocKeys(documents)) >= 3
    /\ Cardinality(regulations["EU"].rows) = 2

(***************************************************************************)
(* C12.  Latest wins: whatever the table held before, after                *)
(* save_regulation(region, title, url, content) with content not None the  *)
(* table holds one row with source_url = url, and that row has exactly the *)
(* given title and the given content.                                      *)
(***************************************************************************)
ContentGiven ==
    /\ outcome.op = "save_regulation"
    /\ IsNone(outcome.raised)
    /\ ~IsNone(outcome.content)

C12_LatestWins ==
    ContentGiven =>
        LET matching == {r \in regulations[outcome.region].rows :
                            r.source_url = Get(outcome.url)}
        IN  /\ Cardinality(matching) = 1
            /\ \A r \in matching : /\ r.title = outcome.title
                                   /\ r.content = outcome.content

\* a row that held a text has been overwritten, with another title, by a call
\* that gave another content
C12_Overwritten ==
    /\ ContentGiven
    /\ outcome.prior = Some(Some(<<"c1">>))
    /\ outcome.content = Some(EmptyText)
    /\ outcome.title = <<"T2">>
    /\ Cardinality(regulations[outcome.region].rows) = 2

(***************************************************************************)
(* C13.  A failed fetch never aborts a crawl: a fetch that raised or came  *)
(* back with a non-2xx status persists nothing and counts nothing, the     *)
(* loop goes on to the next entry with the rest of the queue untouched,    *)
(* and from any such fetch the run reaches its final report with the queue *)
(* empty or the page budget reached.                                       *)
(***************************************************************************)
RunReported == pc = "done" /\ (queue = <<>> \/ pages_saved >= cfg.max_pages)

C13_FailureSkipsUrl ==
    /\ [][ (fetchLog' # fetchLog /\ ~last'.ok) =>
              /\ documents' = documents
              /\ pages_saved' = pages_saved
              /\ pc' = pc
              /\ queue' = IF pc = "bfs" THEN Tail(queue) ELSE queue ]_vars
    /\ (~IsNone(last.url) /\ ~last.ok) ~> RunReported

\* a request has raised in the breadth-first loop after another fetch, with
\* entries still queued and budget left
C13_FailedMidRun ==
    /\ pc = "bfs"
    /\ last.failed
    /\ last.phase = "bfs"
    /\ Len(fetchLog) >= 2
    /\ queue # <<>>
    /\ pages_saved < cfg.max_pages

(***************************************************************************)
(* C14.  crawl_generic terminates, whatever the pages answer and link to   *)
(* among finitely many URLs and for every max_depth and max_pages: every   *)
(* run reaches its final report, and it does so only with the queue empty  *)
(* or pages_saved at max_pages or beyond.                                  *)
(***************************************************************************)
C14_Terminates ==
    /\ <>(pc = "done")
    /\ [](pc = "done" => (queue = <<>> \/ pages_saved >= cfg.max_pages))

\* a run has ended because the queue ran empty, with budget left, after the
\* breadth-first loop fetched pages of depth 1
C14_QueueRanEmpty ==
    /\ pc = "done"
    /\ queue = <<>>
    /\ pages_saved < cfg.max_pages
    /\ last.phase = "bfs"
    /\ last.depth >= 1
    /\ Len(fetchLog) >= 3

(***************************************************************************)
(* C15.  Within one run of crawl_generic every URL is fetched at most      *)
(* once, also when it is enqueued several times or is both an extra PDF    *)
(* and a queue entry; and every fetched URL is in visited.                 *)
(***************************************************************************)
C15_FetchedOnce ==
    /\ \A i, j \in 1..Len(fetchLog) : fetchLog[i] = fetchLog[j] => i = j
    /\ pc # "idle" => Range(fetchLog) \subseteq visited

\* UrlA, an extra PDF and the first start URL, was fetched in the direct phase
\* and its queue entry has been dequeued and skipped
C15_SkippedQueuedExtra ==
    /\ cfg.extra_pdf_urls = <<UrlB, UrlA>>
    /\ cfg.max_pages > 0
    /\ pc = "bfs"
    /\ fetchLog = <<UrlB, UrlA>>
    /\ Len(queue) < Len(cfg.start_urls)

(***************************************************************************)
(* C16.  A page fetched with a non-2xx status is neither persisted nor     *)
(* crawled further: the step that fetches it makes no save_document call   *)
(* (documents and pages_saved stay as they are) and enqueues none of its   *)
(* links.                                                                  *)
(***************************************************************************)
C16_ErrorPageDropped ==
    [][ (fetchLog' # fetchLog /\ ~last'.failed /\ ~last'.ok) =>
           /\ documents' = documents
           /\ pages_saved' = pages_saved
           /\ queue' = IF pc = "bfs" THEN Tail(queue) ELSE queue ]_vars

\* the breadth-first loop has fetched, below max_depth and with budget left,
\* a non-2xx page whose body holds links
C16_ErrorPageWithLinks ==
    /\ ~IsNone(last.url)
    /\ ~last.failed
    /\ ~last.ok
    /\ last.hrefs > 0
    /\ last.phase = "bfs"
    /\ last.depth < cfg.max_depth
    /\ pages_saved < cfg.max_pages

(***************************************************************************)
(* C17.  A page fetched with a 2xx status whose extracted text is empty is *)
(* marked visited, is not persisted (documents unchanged) and does not     *)
(* increment pages_saved; so every row crawl_generic writes has non-empty  *)
(* text.                                                                   *)
(***************************************************************************)
C17_EmptyTextNotPersisted ==
    /\ [](\A r \in documents.rows : r.text # EmptyText)
    /\ [][ (fetchLog' # fetchLog /\ last'.ok /\ last'.text = EmptyText) =>
              /\ documents' = documents
              /\ pages_saved' = pages_saved
              /\ Get(last'.url) \in visited' ]_vars

\* after a page was persisted, a PDF or an HTML page was fetched with a 2xx
\* status and its extractor found no text in it
C17_EmptyPageFetched ==
    /\ last.ok
    /\ last.route \in {"pdf", "html"}
    /\ last.text = EmptyText
    /\ pages_saved >= 1
    /\ pages_saved < cfg.max_pages

(***************************************************************************)
(* C18.  As claimed: between every two consecutive fetches of a run, those *)
(* of the direct-PDF phase and those that follow a failed fetch included,  *)
(* time.sleep(REQUEST_DELAY) has run: no fetch_url call follows another    *)
(* without a sleep between them.                                           *)
(***************************************************************************)
C18_SleepBetweenFetches == ~IsNone(last.url) => last.gap

(***************************************************************************)
(* C19.  Every fetch of an extra_pdf_urls entry happens before the first   *)
(* fetch of the breadth-first loop; the direct-PDF phase is not cut short  *)
(* by the page budget (once it is over every extra PDF has been fetched,   *)
(* whatever max_pages is); and each direct PDF persisted increments        *)
(* pages_saved, the counter the loop compares with max_pages, so that in a *)
(* run on an empty table pages_saved is the number of rows written.        *)
(***************************************************************************)
C19_DirectPdfsFirst ==
    LET extras == Range(cfg.extra_pdf_urls)
        n == Cardinality(extras)
    IN  /\ pc = "pdfs" => (Range(fetchLog) \subseteq extras /\ last.phase # "bfs")
        /\ pc \in {"bfs", "done"} =>
              /\ Len(fetchLog) >= n
              /\ Range(SubSeq(fetchLog, 1, n)) = extras
        /\ last.phase = "bfs" => Len(fetchLog) > n
        /\ pages_saved = Cardinality(documents.rows)

\* a run with two extra PDFs and max_pages = 2 has ended with entries still
\* queued after three fetches: one direct PDF and one page of the loop were
\* persisted and together used up the budget
C19_DirectPdfCounted ==
    /\ pc = "done"
    /\ Len(cfg.extra_pdf_urls) = 2
    /\ cfg.max_pages = 2
    /\ pages_saved = 2
    /\ Len(fetchLog) = 3
    /\ last.phase = "bfs"
    /\ queue # <<>>

(***************************************************************************)
(* C20.  Strict FIFO: the breadth-first loop takes the entry at the head   *)
(* of the queue and adds entries at its tail only, so entries leave in the *)
(* order they entered; hence the queue is ordered by depth, no fetched     *)
(* page is deeper than an entry still queued, and the depths of the pages  *)
(* fetched one after the other never decrease.                             *)
(***************************************************************************)
C20_Fifo ==
    /\ [](\A i, j \in 1..Len(queue) : i <= j => queue[i][2] <= queue[j][2])
    /\ [](last.phase = "bfs" => \A i \in 1..Len(queue) : last.depth <= queue[i][2])
    /\ [][ (pc = "bfs" /\ queue' # queue) =>
              /\ Len(queue') >= Len(queue) - 1
              /\ SubSeq(queue', 1, Len(queue) - 1) = Tail(queue) ]_vars
    /\ [][ (pc = "bfs" /\ fetchLog' # fetchLog) =>
              /\ last'.url = Some(Head(queue)[1])
              /\ last'.depth = Head(queue)[2]
              /\ last.phase = "bfs" => last'.depth >= last.depth ]_vars

\* a page of depth 1 has been fetched while the queue holds an entry of depth 1
\* ahead of an entry of depth 2
C20_MixedDepthsQueued ==
    /\ pc = "bfs"
    /\ last.phase = "bfs"
    /\ last.depth = 1
    /\ Len(queue) >= 2
    /\ queue[1][2] = 1
    /\ queue[Len(queue)][2] = 2

(***************************************************************************)
(* C21.  As claimed: every document the crawlers persist has a non-empty   *)
(* title, in the documents table written by crawl_generic and in the       *)
(* regulations tables written by scrape_text_page and scrape_pdf_and_save, *)
(* for HTML pages and for PDFs, a PDF served from a URL ending with "/"    *)
(* included.                                                               *)
(***************************************************************************)
C21_TitlesNonEmpty ==
    /\ \A r \in documents.rows : r.title # EmptyText
    /\ \A region \in ScrapperRegions :
          \A r \in regulations[region].rows : r.title # EmptyText

\* the row of url in the region's table holds non-NULL, non-empty content
HoldsContent(regs, region, url) ==
    \E r \in regs[region].rows :
        r.source_url = url /\ r.content # None /\ r.content # Some(EmptyText)

\* the answer gives no PDF text: the request fails, the status is an error, the
\* body is empty, or the extracted text is nothing but whitespace
NoPdfText(resp) ==
    \/ resp.exc
    \/ resp.status \in 400..599
    \/ resp.body.empty
    \/ \A i \in DOMAIN resp.body.pdfminer : resp.body.pdfminer[i] = " "

\* C22: scrape_pdf_and_save fills gaps only: when the table already holds a row
\* for pdf_url with non-NULL, non-empty content it fetches nothing and leaves
\* the table unchanged; the table is also unchanged when the download fails or
\* the extracted text is empty.
C22_FillGapsOnly ==
    [][outcome'.op = "scrape_pdf_and_save" =>
        LET url == Get(outcome'.url)
            held == HoldsContent(regulations, "EU", url)
        IN  /\ held => /\ outcome'.fetched = <<>>
                       /\ regulations' = regulations
            /\ (~held /\ NoPdfText(Get(outcome'.answer))) =>
                   regulations' = regulations]_vars

C22_Witness ==
    /\ outcome.op = "scrape_pdf_and_save"
    /\ outcome.prior # None
    /\ Get(outcome.prior) \notin {None, Some(EmptyText)}
    /\ outcome.fetched = <<>>
    /\ HoldsContent(regulations, "EU", Get(outcome.url))

C22_WitnessGapFilled ==
    /\ outcome.op = "scrape_pdf_and_save"
    /\ outcome.prior = Some(None)
    /\ outcome.fetched # <<>>
    /\ HoldsContent(regulations, "EU", Get(outcome.url))

\* C23: save_regulation(region, title, url, None) never modifies an existing
\* row: when the region's table holds a row for url the store is unchanged,
\* else exactly one row (title, url, NULL) is inserted.
C23_TitleOnlySave ==
    [][(/\ outcome'.op = "save_regulation"
        /\ outcome'.raised = None
        /\ outcome'.content = None) =>
        LET region == outcome'.region
            url == Get(outcome'.url)
            old == regulations[region].rows
            new == regulations'[region].rows
        IN  /\ \A other \in ScrapperRegions \ {region} :
                   regulations'[other] = regulations[other]
            /\ IF \E r \in old : r.source_url = url
               THEN regulations' = regulations
               ELSE /\ old \subseteq new
                    /\ Cardinality(new \ old) = 1
                    /\ \A r \in new \ old :
                           /\ r.title = outcome'.title
                           /\ r.source_url = url
                           /\ r.content = None]_vars

C23_ExistingRowKept ==
    /\ outcome.op = "save_regulation"
    /\ outcome.raised = None
    /\ outcome.content = None
    /\ outcome.prior = Some(Some(<<"c1">>))
    /\ \E r \in regulations[outcome.region].rows :
           /\ r.source_url = Get(outcome.url)
           /\ r.title # outcome.title
           /\ r.content = Some(<<"c1">>)

C23_RowInserted ==
    /\ outcome.op = "save_regulation"
    /\ outcome.raised = None
    /\ outcome.content = None
    /\ outcome.prior = None
    /\ Cardinality(regulations[outcome.region].rows) = 2

\* C24: content never regresses: once the row of a URL holds non-empty content,
\* no later step of a scraper (scrape_text_page, scrape_pdf_and_save,
\* parse_ais_table through save_regulation; crawl_generic through
\* save_document) leaves that row with NULL or empty content.
C24_ContentNeverRegresses ==
    [][/\ \A region \in ScrapperRegions :
              \A r \in regulations[region].rows :
                  HoldsContent(regulations, region, r.source_url) =>
                      HoldsContent(regulations', region, r.source_url)
       /\ \A r \in documents.rows :
              r.text # EmptyText =>
                  \A q \in documents'.rows :
                      (q.jurisdiction = r.jurisdiction /\ q.url = r.url) =>
                          q.text # EmptyText]_vars

\* the PDF text a row holds: what follows the marker in its content, None when
\* the content is NULL or holds no marker
PdfTextIn(r) ==
    IF r.content = None THEN None
    ELSE LET c == Get(r.content)
             at == { i \in DOMAIN c : c[i] = PdfMarker }
         IN  IF at = {} THEN None
             ELSE Some(SubSeq(c, (CHOOSE i \in at : \A j \in at : i <= j) + 1, Len(c)))

\* C25: re-running parse_ais_table over an unchanged AIS page keeps the PDF
\* text: a row that holds the extracted text of its PDF after the marker before
\* the second run over the same page still holds that text after it.
C25_RerunKeepsPdfText ==
    [][(/\ outcome.op = "parse_ais_table"
        /\ outcome'.op = "parse_ais_table"
        /\ outcome'.page = outcome.page) =>
        \A r \in regulations["India"].rows :
            PdfTextIn(r) # None =>
                \E q \in regulations'["India"].rows :
                    /\ q.source_url = r.source_url
                    /\ PdfTextIn(q) = PdfTextIn(r)]_vars

\* C26: a store write touches only its own key: save_document(j, u) leaves
\* every row whose (jurisdiction, url) differs from (j, u) unchanged, and
\* save_regulation(r, u) leaves every row of r with another source_url, and
\* every other region's table, unchanged.
C26_OwnKeyOnly ==
    [][/\ outcome'.op = "save_document" =>
              \A r \in documents.rows :
                  (r.jurisdiction # outcome'.region \/ r.url # outcome'.url) =>
                      r \in documents'.rows
       /\ (outcome'.op = "save_regulation" /\ outcome'.raised = None) =>
              /\ \A r \in regulations[outcome'.region].rows :
                     r.source_url # Get(outcome'.url) =>
                         r \in regulations'[outcome'.region].rows
              /\ \A other \in ScrapperRegions \ {outcome'.region} :
                     regulations'[other] = regulations[other]]_vars

\* the same URL is held under two jurisdictions, and a row of a region has been
\* updated next to a row of another URL and to rows of another region
C26_IndependentRows ==
    /\ \E r, q \in documents.rows :
           r.url = q.url /\ r.url # None /\ r.jurisdiction # q.jurisdiction
    /\ outcome.op = "save_regulation"
    /\ outcome.prior = Some(None)
    /\ outcome.content # None
    /\ \E r \in regulations[outcome.region].rows :
           r.source_url # Get(outcome.url) /\ r.content = None
    /\ \E other \in ScrapperRegions \ {outcome.region} :
           \E r \in regulations[other].rows :
               r.source_url = Get(outcome.url) /\ r.content = None

====
